---- MODULE Spec2Model ----
(***************************************************************************)
(* AltEnglish (src/src/altenglish.py, src/src/alenglish.py): the           *)
(* phoneme-to-symbol transliteration pipeline.                             *)
(*                                                                         *)
(* A Python str is modelled as a sequence of one-character strings, so     *)
(* that the regular expressions, strip(), lower(), split() and join() of   *)
(* the source are computed character by character.                         *)
(***************************************************************************)
EXTENDS Integers, Sequences, FiniteSets, TLC

-----------------------------------------------------------------------------
(* Bounds of the model                                                     *)

\* longest text typed by the user (pipeline)
MaxLen == 3
\* longest text given to the tokenizer alone
MaxTokLen == 4
\* longest phone string given to strip_stress alone
MaxPhoneLen == 4
\* longest phoneme sequence given to the mappers alone
MaxPhones == 3

-----------------------------------------------------------------------------
(* Character classes and str methods                                       *)

UpperSeq == <<"A","B","C","D","E","F","G","H","I","J","K","L","M",
              "N","O","P","Q","R","S","T","U","V","W","X","Y","Z">>
LowerSeq == <<"a","b","c","d","e","f","g","h","i","j","k","l","m",
              "n","o","p","q","r","s","t","u","v","w","x","y","z">>

\* the character class [A-Za-z]
IsLetter(c) == \E k \in 1..26 : c = UpperSeq[k] \/ c = LowerSeq[k]

\* the characters str.isspace() and str.strip() treat as whitespace (ASCII part)
WhitespaceChars == {" ", "\t", "\n", "\r", "\f"}

\* str.isspace(): non-empty and made of whitespace only
isspace(s) == Len(s) > 0 /\ \A k \in 1..Len(s) : s[k] \in WhitespaceChars

\* str.lower() on one character
LowerChar(c) ==
    IF \E k \in 1..26 : c = UpperSeq[k]
    THEN LowerSeq[CHOOSE k \in 1..26 : c = UpperSeq[k]]
    ELSE c

\* str.lower()
lower(s) == [k \in 1..Len(s) |-> LowerChar(s[k])]

\* str.strip(): drop the leading and the trailing whitespace
strip(s) ==
    LET keep == {k \in 1..Len(s) : s[k] \notin WhitespaceChars}
    IN  IF keep = {} THEN <<>>
        ELSE LET lo == CHOOSE k \in keep : \A j \in keep : k <= j
                 hi == CHOOSE k \in keep : \A j \in keep : j <= k
             IN  SubSeq(s, lo, hi)

\* "".join(parts)
RECURSIVE concat(_)
concat(parts) ==
    IF parts = <<>> THEN <<>> ELSE Head(parts) \o concat(Tail(parts))

\* " ".join(parts)
RECURSIVE join_space(_)
join_space(parts) ==
    IF parts = <<>> THEN <<>>
    ELSE IF Len(parts) = 1 THEN Head(parts)
    ELSE Head(parts) \o <<" ">> \o join_space(Tail(parts))

\* str.split() with no argument: the maximal runs of non-whitespace
RECURSIVE split_from(_, _, _)
split_from(s, i, cur) ==
    IF i > Len(s) THEN (IF cur = <<>> THEN <<>> ELSE <<cur>>)
    ELSE IF s[i] \in WhitespaceChars
         THEN (IF cur = <<>> THEN <<>> ELSE <<cur>>) \o split_from(s, i + 1, <<>>)
         ELSE split_from(s, i + 1, Append(cur, s[i]))

split(s) == split_from(s, 1, <<>>)

\* all sequences over S of length at most n
SeqsUpTo(S, n) == UNION {[1..k -> S] : k \in 0..n}

-----------------------------------------------------------------------------
(* 1) Engineered symbol mapping: the fixed tables. A glyph outside ASCII    *)
(* is written as the one-character string naming its code point, "U+25A1". *)

ENGINEERED ==
       (<<"P">> :> <<"U+25A1">>)
    @@ (<<"B">> :> <<"U+25A1", "U+00B7">>)
    @@ (<<"M">> :> <<"U+25A1", "U+00B0">>)
    @@ (<<"W">> :> <<"U+25A1", ">">>)
    @@ (<<"T">> :> <<"U+22A3">>)
    @@ (<<"D">> :> <<"U+22A3", "U+00B7">>)
    @@ (<<"S">> :> <<"U+22A3", "~">>)
    @@ (<<"Z">> :> <<"U+22A3", "~", "U+00B7">>)
    @@ (<<"N">> :> <<"U+22A3", "U+00B0">>)
    @@ (<<"L">> :> <<"U+22A3", ">">>)
    @@ (<<"R">> :> <<"U+22A3", ">", ">">>)
    @@ (<<"K">> :> <<"U+2302">>)
    @@ (<<"G">> :> <<"U+2302", "U+00B7">>)
    @@ (<<"N", "G">> :> <<"U+2302", "U+00B0">>)
    @@ (<<"T", "H">> :> <<"U+2206", "~">>)
    @@ (<<"D", "H">> :> <<"U+2206", "~", "U+00B7">>)
    @@ (<<"S", "H">> :> <<"U+03A9", "~">>)
    @@ (<<"Z", "H">> :> <<"U+03A9", "~", "U+00B7">>)
    @@ (<<"C", "H">> :> <<"U+03A9", "+">>)
    @@ (<<"J", "H">> :> <<"U+03A9", "+", "U+00B7">>)
    @@ (<<"H", "H">> :> <<"U+25CB", "~">>)
    @@ (<<"F">> :> <<"U+2301", "~">>)
    @@ (<<"V">> :> <<"U+2301", "~", "U+00B7">>)

VOWELS ==
       (<<"I", "Y">> :> <<"U+25B2">>)
    @@ (<<"I", "H">> :> <<"U+25B2", "|">>)
    @@ (<<"E", "Y">> :> <<"U+25B6">>)
    @@ (<<"E", "H">> :> <<"U+25B6", "|">>)
    @@ (<<"A", "E">> :> <<"U+25BC">>)
    @@ (<<"A", "H">> :> <<"U+25BC", "|">>)
    @@ (<<"A", "X">> :> <<"U+25B6", "|", "|">>)
    @@ (<<"O", "W">> :> <<"U+25B6", "U+2014">>)
    @@ (<<"U", "W">> :> <<"U+25B2", "U+2014">>)
    @@ (<<"A", "A">> :> <<"U+25BC", "U+2014">>)
    @@ (<<"A", "O">> :> <<"U+25BC", "U+2014">>)
    @@ (<<"U", "H">> :> <<"U+25B2", "U+2014">>)
    @@ (<<"E", "R">> :> <<"U+25B6", "|", "|", "U+22A3", ">", ">">>)
    @@ (<<"A", "Y">> :> <<"U+25BC", "U+25B2">>)
    @@ (<<"A", "W">> :> <<"U+25BC", "U+25B2", "U+2014">>)
    @@ (<<"O", "Y">> :> <<"U+25B6", "U+2014", "U+25B2", "|">>)

ESPEAK_PH ==
       (<<"P">> :> <<"p">>)
    @@ (<<"B">> :> <<"b">>)
    @@ (<<"M">> :> <<"m">>)
    @@ (<<"W">> :> <<"w">>)
    @@ (<<"T">> :> <<"t">>)
    @@ (<<"D">> :> <<"d">>)
    @@ (<<"S">> :> <<"s">>)
    @@ (<<"Z">> :> <<"z">>)
    @@ (<<"N">> :> <<"n">>)
    @@ (<<"L">> :> <<"l">>)
    @@ (<<"R">> :> <<"r">>)
    @@ (<<"K">> :> <<"k">>)
    @@ (<<"G">> :> <<"g">>)
    @@ (<<"N", "G">> :> <<"N">>)
    @@ (<<"T", "H">> :> <<"T">>)
    @@ (<<"D", "H">> :> <<"D">>)
    @@ (<<"S", "H">> :> <<"S">>)
    @@ (<<"Z", "H">> :> <<"Z">>)
    @@ (<<"C", "H">> :> <<"t", "S">>)
    @@ (<<"J", "H">> :> <<"d", "Z">>)
    @@ (<<"H", "H">> :> <<"h">>)
    @@ (<<"F">> :> <<"f">>)
    @@ (<<"V">> :> <<"v">>)
    @@ (<<"I", "Y">> :> <<"i", ":">>)
    @@ (<<"I", "H">> :> <<"I">>)
    @@ (<<"E", "Y">> :> <<"e", "I">>)
    @@ (<<"E", "H">> :> <<"E">>)
    @@ (<<"A", "E">> :> <<"a">>)
    @@ (<<"A", "H">> :> <<"V">>)
    @@ (<<"A", "X">> :> <<"@">>)
    @@ (<<"O", "W">> :> <<"o", "U">>)
    @@ (<<"U", "W">> :> <<"u", ":">>)
    @@ (<<"A", "A">> :> <<"A", ":">>)
    @@ (<<"A", "O">> :> <<"O", ":">>)
    @@ (<<"U", "H">> :> <<"U">>)
    @@ (<<"E", "R">> :> <<"3", ":">>)
    @@ (<<"A", "Y">> :> <<"a", "I">>)
    @@ (<<"A", "W">> :> <<"a", "U">>)
    @@ (<<"O", "Y">> :> <<"O", "I">>)

-----------------------------------------------------------------------------
(* 2) Phoneme utilities                                                    *)

StressDigits == {"0", "1", "2"}

Digits == {"0", "1", "2", "3", "4", "5", "6", "7", "8", "9"}

\* a slip of strip_stress: the class [0-9] instead of [012]
strip_stress_any_digit(arpabet_phone) ==
    LET n == Len(arpabet_phone)
    IN  IF n >= 1 /\ arpabet_phone[n] \in Digits
        THEN SubSeq(arpabet_phone, 1, n - 1)
        ELSE arpabet_phone

\* _STRESS_DIGITS.sub("", arpabet_phone) with _STRESS_DIGITS = [012]$ :
\* `$` matches at the end of the string and also just before a newline that
\* ends the string, so there is at most one match
strip_stress(arpabet_phone) ==
    LET n == Len(arpabet_phone)
    IN  IF n >= 1 /\ arpabet_phone[n] \in StressDigits
        THEN SubSeq(arpabet_phone, 1, n - 1)
        ELSE IF n >= 2 /\ arpabet_phone[n] = "\n"
                       /\ arpabet_phone[n - 1] \in StressDigits
        THEN SubSeq(arpabet_phone, 1, n - 2) \o <<"\n">>
        ELSE arpabet_phone

\* the visible marker f"<?>({x})"
Placeholder(x) == <<"<", "?", ">", "(">> \o x \o <<")">>

\* a slip of the loop body: a miss is recorded but gets no slot in out
engineered_step_no_slot(acc, ph) ==
    LET base == strip_stress(ph)
    IN  IF base \in DOMAIN ENGINEERED
        THEN [out |-> Append(acc.out, ENGINEERED[base]), missing |-> acc.missing]
        ELSE IF base \in DOMAIN VOWELS
        THEN [out |-> Append(acc.out, VOWELS[base]), missing |-> acc.missing]
        ELSE [out |-> acc.out, missing |-> Append(acc.missing, base)]

\* one iteration of the loop of arpabet_to_engineered_symbols
engineered_step(acc, ph) ==
    LET base == strip_stress(ph)
    IN  IF base \in DOMAIN ENGINEERED
        THEN [out |-> Append(acc.out, ENGINEERED[base]), missing |-> acc.missing]
        ELSE IF base \in DOMAIN VOWELS
        THEN [out |-> Append(acc.out, VOWELS[base]), missing |-> acc.missing]
        ELSE [out |-> Append(acc.out, Placeholder(base)),
              missing |-> Append(acc.missing, base)]

\* the loop of arpabet_to_engineered_symbols: the locals out and missing
RECURSIVE engineered_loop(_, _)
engineered_loop(acc, phones) ==
    IF phones = <<>> THEN acc
    ELSE engineered_loop(engineered_step(acc, Head(phones)), Tail(phones))

\* returns (" ".join(out), missing); out is kept beside them as the list
\* the string is joined from
arpabet_to_engineered_symbols(phones) ==
    LET acc == engineered_loop([out |-> <<>>, missing |-> <<>>], phones)
    IN  [out |-> acc.out, engineered |-> join_space(acc.out), missing |-> acc.missing]

\* one iteration of the loop of arpabet_to_espeak_parts
espeak_step(acc, ph) ==
    LET base == strip_stress(ph)
    IN  IF base \in DOMAIN ESPEAK_PH
        THEN [parts |-> Append(acc.parts, ESPEAK_PH[base]), missing |-> acc.missing]
        ELSE [parts |-> acc.parts, missing |-> Append(acc.missing, base)]

RECURSIVE espeak_loop(_, _)
espeak_loop(acc, phones) ==
    IF phones = <<>> THEN acc
    ELSE espeak_loop(espeak_step(acc, Head(phones)), Tail(phones))

\* returns (parts, missing)
arpabet_to_espeak_parts(phones) ==
    espeak_loop([parts |-> <<>>, missing |-> <<>>], phones)

-----------------------------------------------------------------------------
(* Tokenizers: re.findall scans left to right; at each position the        *)
(* alternatives are tried in order, and a position where none matches is   *)
(* skipped                                                                 *)

\* length of the run of letters starting at position i
RECURSIVE LetterRun(_, _)
LetterRun(text, i) ==
    IF i <= Len(text) /\ IsLetter(text[i]) THEN 1 + LetterRun(text, i + 1) ELSE 0

\* length of the run of the letter s starting at position i
RECURSIVE SRun(_, _)
SRun(text, i) ==
    IF i <= Len(text) /\ text[i] = "s" THEN 1 + SRun(text, i + 1) ELSE 0

\* length matched at i by [A-Za-z]+(?:'[A-Za-z]+)? , 0 when it does not match
WordMatch(text, i) ==
    LET k == LetterRun(text, i)
        j == i + k
    IN  IF k = 0 THEN 0
        ELSE IF j <= Len(text) /\ text[j] = "'" /\ LetterRun(text, j + 1) > 0
        THEN k + 1 + LetterRun(text, j + 1)
        ELSE k

\* length matched at i by the second alternative, written \\s+ in a raw
\* string: a backslash followed by one or more letters s
BackslashSMatch(text, i) ==
    IF i <= Len(text) /\ text[i] = "\\" /\ SRun(text, i + 1) > 0
    THEN 1 + SRun(text, i + 1)
    ELSE 0

\* length matched at i by the third alternative, written [^A-Za-z\\s] in a
\* raw string: one character that is no letter and no backslash
OtherMatch(text, i) ==
    IF i <= Len(text) /\ ~IsLetter(text[i]) /\ text[i] # "\\" THEN 1 ELSE 0

\* the pattern of tokenize_with_punctuation at position i
PunctMatch(text, i) ==
    IF WordMatch(text, i) > 0 THEN WordMatch(text, i)
    ELSE IF BackslashSMatch(text, i) > 0 THEN BackslashSMatch(text, i)
    ELSE OtherMatch(text, i)

RECURSIVE findall_words(_, _)
findall_words(text, i) ==
    IF i > Len(text) THEN <<>>
    ELSE LET m == WordMatch(text, i)
         IN  IF m = 0 THEN findall_words(text, i + 1)
             ELSE <<SubSeq(text, i, i + m - 1)>> \o findall_words(text, i + m)

RECURSIVE findall_punct(_, _)
findall_punct(text, i) ==
    IF i > Len(text) THEN <<>>
    ELSE LET m == PunctMatch(text, i)
         IN  IF m = 0 THEN findall_punct(text, i + 1)
             ELSE <<SubSeq(text, i, i + m - 1)>> \o findall_punct(text, i + m)

tokenize_words(text) == findall_words(text, 1)

tokenize_with_punctuation(text) == findall_punct(text, 1)

\* word_pattern.fullmatch(token)
word_fullmatch(token) == Len(token) > 0 /\ WordMatch(token, 1) = Len(token)

-----------------------------------------------------------------------------
(* State                                                                   *)

VARIABLES
    \* strip_stress applied alone: its argument and the successive results
    phone, stripped,
    \* the two mappers applied alone: the phoneme sequence and both results
    map_phones, map_engineered, map_espeak,
    \* the tokenizers applied alone: the text and both results
    tok_text, tok_tokens, tok_words,
    \* main(): position, parsed arguments and locals
    pc, args, raw_text, words, idx, word_entries, missing_words, any_unmapped,
    tokens, sentence_symbols, sentence_output, phones_groups,
    \* the pronunciations CMUdict has given so far, by lowered word
    cmudict,
    \* what was printed, in order
    stdout,
    \* make_audio_files(): result of espeak_available(), the subprocess.run
    \* calls made with their outcome, and the phoneme string built
    available, invocations, phon_str

stressVars == <<phone, stripped>>
mapVars == <<map_phones, map_engineered, map_espeak>>
tokVars == <<tok_text, tok_tokens, tok_words>>
mainVars == <<pc, args, raw_text, words, idx, word_entries, missing_words,
              any_unmapped, tokens, sentence_symbols, sentence_output,
              phones_groups, cmudict, stdout, available, invocations, phon_str>>
vars == <<stressVars, mapVars, tokVars, mainVars>>

\* a result not computed yet
NotRun == [done |-> FALSE]

StressIdle == phone = <<>> /\ stripped = <<>>
MapIdle == map_phones = <<>> /\ map_engineered = NotRun /\ map_espeak = NotRun
TokIdle == tok_text = <<>> /\ tok_tokens = NotRun /\ tok_words = NotRun
MainIdle ==
    /\ pc = "idle"
    /\ args = [mode |-> "word", preserve_punctuation |-> TRUE, no_audio |-> FALSE]
    /\ raw_text = <<>> /\ words = <<>> /\ idx = 1
    /\ word_entries = <<>> /\ missing_words = <<>> /\ any_unmapped = <<>>
    /\ tokens = <<>> /\ sentence_symbols = <<>> /\ sentence_output = <<>>
    /\ phones_groups = <<>>
    /\ cmudict = <<>> /\ stdout = <<>>
    /\ available = "unchecked" /\ invocations = <<>> /\ phon_str = <<>>

-----------------------------------------------------------------------------
(* strip_stress alone                                                      *)

\* characters of the phone strings tried: letters, stress digits and a digit
\* that is no stress digit. Phones come out of str.split(), so they hold no
\* whitespace
PhoneChars == {"A", "H", "0", "1", "3"}

StressInit ==
    /\ phone \in SeqsUpTo(PhoneChars, MaxPhoneLen)
    /\ stripped = <<>>
    /\ MapIdle /\ TokIdle /\ MainIdle

StripOnce ==
    /\ Len(stripped) = 0
    /\ stripped' = <<strip_stress(phone)>>
    /\ UNCHANGED <<phone, mapVars, tokVars, mainVars>>

StripAgain ==
    /\ Len(stripped) = 1
    /\ stripped' = Append(stripped, strip_stress(stripped[1]))
    /\ UNCHANGED <<phone, mapVars, tokVars, mainVars>>

StressNext == StripOnce \/ StripAgain

SpecStress == StressInit /\ [][StressNext]_vars

-----------------------------------------------------------------------------
(* the mappers alone                                                       *)

\* phones tried: mapped consonant, stressed vowels, a diphthong, the CMUdict
\* phone Y that neither table holds, and Y with a stress digit
MapPhoneSet == {<<"H", "H">>, <<"A", "H", "0">>, <<"A", "Y", "1">>,
                <<"E", "R", "2">>, <<"Y">>, <<"Y", "1">>}

MapInit ==
    /\ map_phones \in SeqsUpTo(MapPhoneSet, MaxPhones)
    /\ map_engineered = NotRun /\ map_espeak = NotRun
    /\ StressIdle /\ TokIdle /\ MainIdle

MapEngineered ==
    /\ ~map_engineered.done
    /\ LET r == arpabet_to_engineered_symbols(map_phones)
       IN  map_engineered' = [done |-> TRUE, out |-> r.out,
                              engineered |-> r.engineered, missing |-> r.missing]
    /\ UNCHANGED <<map_phones, map_espeak, stressVars, tokVars, mainVars>>

MapEspeak ==
    /\ ~map_espeak.done
    /\ LET r == arpabet_to_espeak_parts(map_phones)
       IN  map_espeak' = [done |-> TRUE, parts |-> r.parts, missing |-> r.missing]
    /\ UNCHANGED <<map_phones, map_engineered, stressVars, tokVars, mainVars>>

MapNext == MapEngineered \/ MapEspeak

SpecMap == MapInit /\ [][MapNext]_vars

-----------------------------------------------------------------------------
(* the tokenizers alone                                                    *)

\* characters of the texts tried: letters, apostrophe, two kinds of
\* whitespace, a punctuation mark and the backslash
TokChars == {"a", "s", "'", " ", "\t", ",", "\\"}

TokInit ==
    /\ tok_text \in SeqsUpTo(TokChars, MaxTokLen)
    /\ tok_tokens = NotRun /\ tok_words = NotRun
    /\ StressIdle /\ MapIdle /\ MainIdle

TokenizeWithPunctuation ==
    /\ ~tok_tokens.done
    /\ tok_tokens' = [done |-> TRUE, tokens |-> tokenize_with_punctuation(tok_text)]
    /\ UNCHANGED <<tok_text, tok_words, stressVars, mapVars, mainVars>>

TokenizeWords ==
    /\ ~tok_words.done
    /\ tok_words' = [done |-> TRUE, words |-> tokenize_words(tok_text)]
    /\ UNCHANGED <<tok_text, tok_tokens, stressVars, mapVars, mainVars>>

TokNext == TokenizeWithPunctuation \/ TokenizeWords

SpecTok == TokInit /\ [][TokNext]_vars

-----------------------------------------------------------------------------
(* 3) Audio generation: building the phoneme string                        *)

\* one iteration of the loop over phones_groups in make_audio_files
audio_group_step(acc, group, pause_between_words) ==
    LET parts1 == IF pause_between_words /\ acc.parts # <<>>
                  THEN Append(acc.parts, <<",">>)
                  ELSE acc.parts
        g == arpabet_to_espeak_parts(group)
    IN  [parts |-> IF g.parts # <<>> THEN parts1 \o g.parts ELSE parts1,
         missing |-> acc.missing \o g.missing]

RECURSIVE audio_parts_loop(_, _, _)
audio_parts_loop(acc, groups, pause_between_words) ==
    IF groups = <<>> THEN acc
    ELSE audio_parts_loop(audio_group_step(acc, Head(groups), pause_between_words),
                          Tail(groups), pause_between_words)

\* the locals parts and missing of make_audio_files after the loop
audio_parts(groups, pause_between_words) ==
    audio_parts_loop([parts |-> <<>>, missing |-> <<>>], groups, pause_between_words)

\* "[[" + " ".join(parts) + "]]"
make_phon_str(parts) == <<"[", "[">> \o join_space(parts) \o <<"]", "]">>

-----------------------------------------------------------------------------
(* 4) main(): helpers                                                      *)

\* what pronouncing.phones_for_word can answer for a word: nothing, one
\* pronunciation, or several (each a string of space-separated phones); the
\* last is a pronunciation made only of Y, the phone no table holds
PronChoices ==
    { <<>>,
      << <<"S">> >>,
      << <<"A", "H", "0", " ", "Y">>, <<"E", "Y", "1">> >>,
      << <<"Y">> >> }

\* word.lower().strip(), the key CMUdict is asked for
dict_key(word) == strip(lower(word))

\* word_to_arpabet, given the answer of pronouncing.phones_for_word:
\* None (found = FALSE) or the first pronunciation, split
word_to_arpabet(answer) ==
    IF answer = <<>> THEN [found |-> FALSE, phones |-> <<>>]
    ELSE [found |-> TRUE, phones |-> split(answer[1])]

\* the tuple appended to word_entries for a word, given CMUdict's answer
make_entry(word, answer) ==
    LET p == word_to_arpabet(answer)
    IN  IF ~p.found
        THEN [word |-> word, found |-> FALSE, phones |-> <<>>,
              engineered |-> <<>>, missing |-> <<>>]
        ELSE LET r == arpabet_to_engineered_symbols(p.phones)
             IN  [word |-> word, found |-> TRUE, phones |-> p.phones,
                  engineered |-> r.engineered, missing |-> r.missing]

\* `if phones` on an entry: neither None nor empty
truthy(entry) == entry.found /\ entry.phones # <<>>

\* a slip of the dict comprehension: the key is word.lower(), the text the
\* dictionary was asked for, instead of the word as it stands in the sentence
word_symbols_map_lowered(entries) ==
    LET keep == {k \in 1..Len(entries) : entries[k].found /\ entries[k].phones # <<>>}
    IN  [w \in {lower(entries[k].word) : k \in keep} |->
            LET last == CHOOSE k \in keep :
                          /\ lower(entries[k].word) = w
                          /\ \A j \in keep : lower(entries[j].word) = w => j <= k
            IN  entries[last].engineered]

\* {word: engineered for word, phones, engineered, _ in word_entries if phones}:
\* a later entry for the same word overwrites an earlier one
word_symbols_map(entries) ==
    LET keep == {k \in 1..Len(entries) : truthy(entries[k])}
    IN  [w \in {entries[k].word : k \in keep} |->
            LET last == CHOOSE k \in keep :
                          /\ entries[k].word = w
                          /\ \A j \in keep : entries[j].word = w => j <= k
            IN  entries[last].engineered]

\* a slip of the loop body: the preserve flag is read the wrong way round
reconstruct_token_flag_inverted(token, symbols_map, preserve_punctuation) ==
    IF word_fullmatch(token)
    THEN IF token \in DOMAIN symbols_map THEN symbols_map[token] ELSE Placeholder(token)
    ELSE IF isspace(token) THEN token
    ELSE IF ~preserve_punctuation THEN token
    ELSE <<" ">>

\* one iteration of the loop over tokens: what is appended to sentence_symbols
reconstruct_token(token, symbols_map, preserve_punctuation) ==
    IF word_fullmatch(token)
    THEN IF token \in DOMAIN symbols_map THEN symbols_map[token] ELSE Placeholder(token)
    ELSE IF isspace(token) THEN token
    ELSE IF preserve_punctuation THEN token
    ELSE <<" ">>

\* [phones for _, phones, _, _ in word_entries if phones]
groups_of(entries) ==
    LET keep == SelectSeq(entries, truthy)
    IN  [k \in 1..Len(keep) |-> keep[k].phones]

\* one call of print(): which message, and the value it shows
Line(kind, data) == [kind |-> kind, data |-> data]

-----------------------------------------------------------------------------
(* 4) main(): the run                                                      *)

\* characters of the texts typed: letters of both cases, whitespace,
\* punctuation and the backslash
TextChars == {"a", "A", "s", " ", ",", "\\"}

\* how a subprocess.run(..., check=False) can end: exit status 0, a non-zero
\* exit status (returned, not raised), or OSError when the process cannot be
\* started
RunOutcomes == {"ok", "nonzero_exit", "raised"}

MainInit ==
    /\ pc = "start"
    /\ args \in [mode : {"word", "sentence"},
                 preserve_punctuation : BOOLEAN,
                 no_audio : BOOLEAN]
    /\ raw_text = <<>> /\ words = <<>> /\ idx = 1
    /\ word_entries = <<>> /\ missing_words = <<>> /\ any_unmapped = <<>>
    /\ tokens = <<>> /\ sentence_symbols = <<>> /\ sentence_output = <<>>
    /\ phones_groups = <<>>
    /\ cmudict = <<>> /\ stdout = <<>>
    /\ available = "unchecked" /\ invocations = <<>> /\ phon_str = <<>>
    /\ StressIdle /\ MapIdle /\ TokIdle

\* CMUdict answers `answer` for `word`: the same answer as before for a key
\* already asked for
Lookup(word, answer) ==
    /\ answer \in PronChoices
    /\ dict_key(word) \in DOMAIN cmudict => answer = cmudict[dict_key(word)]
    /\ cmudict' = IF dict_key(word) \in DOMAIN cmudict THEN cmudict
                  ELSE cmudict @@ (dict_key(word) :> answer)

\* lines 304-322: read and strip the text, leave on no input or no words
ReadInput ==
    /\ pc = "start"
    /\ \E typed \in SeqsUpTo(TextChars, MaxLen) :
         LET text == strip(typed)
             ws == tokenize_words(text)
         IN  /\ raw_text' = text
             /\ IF text = <<>>
                THEN /\ stdout' = Append(stdout, Line("no_input", <<>>))
                     /\ pc' = "returned_no_input"
                     /\ words' = words
                ELSE IF ws = <<>>
                THEN /\ stdout' = Append(stdout, Line("no_words", <<>>))
                     /\ pc' = "returned_no_words"
                     /\ words' = ws
                ELSE /\ words' = ws
                     /\ IF args.mode = "word"
                        THEN /\ pc' = "word_lookup"
                             /\ stdout' = IF Len(ws) > 1
                                          THEN Append(stdout, Line("warn_multiple_words", <<>>))
                                          ELSE stdout
                        ELSE /\ pc' = "sentence_lookup"
                             /\ stdout' = stdout
    /\ UNCHANGED <<args, idx, word_entries, missing_words, any_unmapped, tokens,
                   sentence_symbols, sentence_output, phones_groups, cmudict,
                   available, invocations, phon_str>>
    /\ UNCHANGED <<stressVars, mapVars, tokVars>>

\* lines 324-338: single-word mode. The locals word, phones, engineered and
\* missing are kept as the only element of word_entries
WordMode ==
    /\ pc = "word_lookup"
    /\ \E answer \in PronChoices :
         LET word == words[1]
             e == make_entry(word, answer)
         IN  /\ Lookup(word, answer)
             /\ IF ~e.found
                THEN /\ stdout' = Append(stdout, Line("not_found", word))
                     /\ pc' = "returned_not_found"
                     /\ UNCHANGED <<word_entries, phones_groups>>
                ELSE /\ word_entries' = <<e>>
                     /\ stdout' = stdout
                                  \o <<Line("phones", e.phones), Line("engineered", e.engineered)>>
                                  \o (IF e.missing # <<>>
                                      THEN <<Line("unmapped", e.missing)>> ELSE <<>>)
                     /\ phones_groups' = <<e.phones>>
                     /\ pc' = IF ~args.no_audio THEN "audio_check" ELSE "finish"
    /\ UNCHANGED <<args, raw_text, words, idx, missing_words, any_unmapped, tokens,
                   sentence_symbols, sentence_output, available, invocations, phon_str>>
    /\ UNCHANGED <<stressVars, mapVars, tokVars>>

\* lines 345-355: one iteration of the loop over words
SentenceLookup ==
    /\ pc = "sentence_lookup"
    /\ idx <= Len(words)
    /\ \E answer \in PronChoices :
         LET word == words[idx]
             e == make_entry(word, answer)
         IN  /\ Lookup(word, answer)
             /\ word_entries' = Append(word_entries, e)
             /\ missing_words' = IF ~e.found THEN Append(missing_words, word)
                                 ELSE missing_words
             /\ any_unmapped' = any_unmapped \o e.missing
    /\ idx' = idx + 1
    /\ UNCHANGED <<pc, args, raw_text, words, tokens, sentence_symbols,
                   sentence_output, phones_groups, stdout, available, invocations,
                   phon_str>>
    /\ UNCHANGED <<stressVars, mapVars, tokVars>>

\* the sentence printed for `toks` under the entries built
sentence_symbols_of(toks, entries, preserve_punctuation) ==
    [k \in 1..Len(toks) |->
        reconstruct_token(toks[k], word_symbols_map(entries), preserve_punctuation)]

\* lines 357-398: the per-word listings, the sentence, the lists of misses
SentenceReport ==
    /\ pc = "sentence_lookup"
    /\ idx > Len(words)
    /\ LET toks == tokenize_with_punctuation(raw_text)
           syms == sentence_symbols_of(toks, word_entries, args.preserve_punctuation)
           out == strip(concat(syms))
       IN  /\ tokens' = toks
           /\ sentence_symbols' = syms
           /\ sentence_output' = out
           /\ stdout' = stdout
                \o <<Line("phones_by_word",
                          [k \in 1..Len(word_entries) |->
                              IF ~word_entries[k].found
                              THEN <<word_entries[k].word, "<not found>">>
                              ELSE <<word_entries[k].word, word_entries[k].phones>>]),
                     Line("engineered_by_word",
                          [k \in 1..Len(word_entries) |->
                              IF ~word_entries[k].found
                              THEN <<word_entries[k].word, Placeholder(word_entries[k].word)>>
                              ELSE <<word_entries[k].word, word_entries[k].engineered>>]),
                     Line("sentence", out)>>
                \o (IF missing_words # <<>>
                    THEN <<Line("words_not_found", missing_words)>> ELSE <<>>)
                \o (IF any_unmapped # <<>>
                    THEN <<Line("unmapped", any_unmapped)>> ELSE <<>>)
    /\ phones_groups' = groups_of(word_entries)
    /\ pc' = IF ~args.no_audio THEN "audio_check" ELSE "finish"
    /\ UNCHANGED <<args, raw_text, words, idx, word_entries, missing_words,
                   any_unmapped, cmudict, available, invocations, phon_str>>
    /\ UNCHANGED <<stressVars, mapVars, tokVars>>

\* the arguments main passes to make_audio_files
audio_text == IF args.mode = "word" THEN words[1] ELSE raw_text
pause_between_words == args.mode = "sentence"

\* a slip of make_audio_files: the check of espeak_available() is left out
AudioCheck_unguarded ==
    /\ pc = "audio_check"
    /\ pc' = "synth_traditional"
    /\ UNCHANGED <<available, stdout>>
    /\ UNCHANGED <<args, raw_text, words, idx, word_entries, missing_words,
                   any_unmapped, tokens, sentence_symbols, sentence_output,
                   phones_groups, cmudict, invocations, phon_str>>
    /\ UNCHANGED <<stressVars, mapVars, tokVars>>

\* lines 236-244: espeak_available() and the early return
AudioCheck ==
    /\ pc = "audio_check"
    /\ \E found \in BOOLEAN :
         IF ~found
         THEN /\ available' = "no"
              /\ stdout' = Append(stdout, Line("audio_not_found", <<>>))
              /\ pc' = "finish"
         ELSE /\ available' = "yes"
              /\ stdout' = stdout
              /\ pc' = "synth_traditional"
    /\ UNCHANGED <<args, raw_text, words, idx, word_entries, missing_words,
                   any_unmapped, tokens, sentence_symbols, sentence_output,
                   phones_groups, cmudict, invocations, phon_str>>
    /\ UNCHANGED <<stressVars, mapVars, tokVars>>

\* lines 247-269: the first subprocess.run, then the phoneme string
SynthTraditional ==
    /\ pc = "synth_traditional"
    /\ \E outcome \in RunOutcomes :
         /\ invocations' = Append(invocations,
                [target |-> "traditional.wav", input |-> audio_text, outcome |-> outcome])
         /\ IF outcome = "raised"
            THEN /\ pc' = "raised"
                 /\ UNCHANGED <<stdout, phon_str>>
            ELSE LET a == audio_parts(phones_groups, pause_between_words)
                 IN  IF a.parts = <<>>
                     THEN /\ stdout' = Append(stdout, Line("audio_no_phonemes", <<>>))
                          /\ pc' = "finish"
                          /\ UNCHANGED phon_str
                     ELSE /\ phon_str' = make_phon_str(a.parts)
                          /\ stdout' = IF a.missing # <<>>
                                       THEN Append(stdout, Line("audio_missing_phones", a.missing))
                                       ELSE stdout
                          /\ pc' = "synth_new"
    /\ UNCHANGED <<args, raw_text, words, idx, word_entries, missing_words,
                   any_unmapped, tokens, sentence_symbols, sentence_output,
                   phones_groups, cmudict, available>>
    /\ UNCHANGED <<stressVars, mapVars, tokVars>>

\* lines 271-274: the second subprocess.run
SynthNew ==
    /\ pc = "synth_new"
    /\ \E outcome \in RunOutcomes :
         /\ invocations' = Append(invocations,
                [target |-> "new.wav", input |-> phon_str, outcome |-> outcome])
         /\ pc' = IF outcome = "raised" THEN "raised" ELSE "finish"
    /\ UNCHANGED <<args, raw_text, words, idx, word_entries, missing_words,
                   any_unmapped, tokens, sentence_symbols, sentence_output,
                   phones_groups, cmudict, stdout, available, phon_str>>
    /\ UNCHANGED <<stressVars, mapVars, tokVars>>

\* lines 400-406: the closing messages
Finish ==
    /\ pc = "finish"
    /\ stdout' = stdout \o <<Line("done", <<>>),
                             IF args.no_audio THEN Line("audio_skipped", <<>>)
                             ELSE Line("audio_paths", <<>>)>>
    /\ pc' = "finished"
    /\ UNCHANGED <<args, raw_text, words, idx, word_entries, missing_words,
                   any_unmapped, tokens, sentence_symbols, sentence_output,
                   phones_groups, cmudict, available, invocations, phon_str>>
    /\ UNCHANGED <<stressVars, mapVars, tokVars>>

Next ==
    \/ ReadInput
    \/ WordMode
    \/ SentenceLookup
    \/ SentenceReport
    \/ AudioCheck
    \/ SynthTraditional
    \/ SynthNew
    \/ Finish

Spec == MainInit /\ [][Next]_vars

-----------------------------------------------------------------------------
(* Properties of the tokenizers (SpecTok)                                  *)

\* where the tokens of tokenize_with_punctuation start in the text
RECURSIVE punct_starts(_, _)
punct_starts(text, i) ==
    IF i > Len(text) THEN <<>>
    ELSE LET m == PunctMatch(text, i)
         IN  IF m = 0 THEN punct_starts(text, i + 1)
             ELSE <<i>> \o punct_starts(text, i + m)

\* C1: concatenating the tokens of tokenize_with_punctuation, in the order
\* emitted, gives back the input exactly
RoundTripTokenization ==
    tok_tokens.done => concat(tok_tokens.tokens) = tok_text

\* C10: every token is a Word (letters, optionally an apostrophe and more
\* letters), or one maximal run of whitespace, or exactly one character
TokenClassification ==
    tok_tokens.done =>
        LET toks == tok_tokens.tokens
            starts == punct_starts(tok_text, 1)
        IN  \A k \in 1..Len(toks) :
                LET t == toks[k]
                    first == starts[k]
                    last == starts[k] + Len(t) - 1
                IN  \/ word_fullmatch(t)
                    \/ /\ isspace(t)
                       /\ first > 1 => tok_text[first - 1] \notin WhitespaceChars
                       /\ last < Len(tok_text) => tok_text[last + 1] \notin WhitespaceChars
                    \/ /\ ~isspace(t)
                       /\ Len(t) = 1

-----------------------------------------------------------------------------
(* Properties of strip_stress (SpecStress)                                 *)

\* a stress digit occurs nowhere but as the final character
StressOnlyFinal(p) == \A k \in 1..(Len(p) - 1) : p[k] \notin StressDigits

\* C2 as stated: for every phone string, stripping twice equals stripping
\* once, and a phone with no final stress digit is returned unchanged
StressIdempotentAll ==
    /\ Len(stripped) = 2 => stripped[2] = stripped[1]
    /\ (Len(stripped) >= 1 /\ (phone = <<>> \/ phone[Len(phone)] \notin StressDigits))
          => stripped[1] = phone

\* C2 amended: for every whitespace-free phone string in which a stress
\* digit occurs only as the final character, stripping twice equals
\* stripping once, and a whitespace-free phone with no final stress digit is
\* returned unchanged
StressIdempotentOnPhones ==
    /\ (Len(stripped) = 2 /\ StressOnlyFinal(phone)) => stripped[2] = stripped[1]
    /\ (Len(stripped) >= 1 /\ (phone = <<>> \/ phone[Len(phone)] \notin StressDigits))
          => stripped[1] = phone

\* a stress-marked phone was stripped twice
StressWitness ==
    /\ Len(stripped) = 2
    /\ Len(phone) >= 2
    /\ StressOnlyFinal(phone)
    /\ phone[Len(phone)] \in StressDigits
    /\ stripped[1] # phone

-----------------------------------------------------------------------------
(* Properties of the mappers (SpecMap)                                     *)

Range(s) == {s[k] : k \in 1..Len(s)}

IsMappedEngineered(ph) ==
    strip_stress(ph) \in DOMAIN ENGINEERED \/ strip_stress(ph) \in DOMAIN VOWELS

IsMappedEspeak(ph) == strip_stress(ph) \in DOMAIN ESPEAK_PH

\* the normalized phones of the sequence that satisfy Miss, in order
NormalizedMisses(phones, Miss(_)) ==
    LET misses == SelectSeq(phones, Miss)
    IN  [k \in 1..Len(misses) |-> strip_stress(misses[k])]

\* C3 as stated: both mappers give one output unit per input phone, a
\* placeholder standing at the position of an unmapped phone, and an unmapped
\* list that is a subset of the input phones
MappingTotalityBoth ==
    /\ map_engineered.done =>
         /\ Len(map_engineered.out) = Len(map_phones)
         /\ \A k \in 1..Len(map_phones) :
              ~IsMappedEngineered(map_phones[k])
                 => map_engineered.out[k] = Placeholder(strip_stress(map_phones[k]))
         /\ Range(map_engineered.missing) \subseteq Range(map_phones)
    /\ map_espeak.done =>
         /\ Len(map_espeak.parts) = Len(map_phones)
         /\ Range(map_espeak.missing) \subseteq Range(map_phones)

\* C3 amended: the engineered mapper gives one output unit per input phone,
\* in input order, a placeholder standing at the position of an unmapped
\* phone; the synthesizer mapper gives one unit per mapped phone, in input
\* order, and leaves unmapped phones out; in both the unmapped list is the
\* stress-normalized unmapped phones of the input, in input order
MappingTotality ==
    /\ map_engineered.done =>
         /\ Len(map_engineered.out) = Len(map_phones)
         /\ \A k \in 1..Len(map_phones) :
              LET base == strip_stress(map_phones[k])
              IN  map_engineered.out[k] =
                     IF base \in DOMAIN ENGINEERED THEN ENGINEERED[base]
                     ELSE IF base \in DOMAIN VOWELS THEN VOWELS[base]
                     ELSE Placeholder(base)
         /\ map_engineered.missing =
               NormalizedMisses(map_phones, LAMBDA ph : ~IsMappedEngineered(ph))
    /\ map_espeak.done =>
         /\ Len(map_espeak.parts) + Len(map_espeak.missing) = Len(map_phones)
         /\ LET hits == SelectSeq(map_phones, IsMappedEspeak)
            IN  map_espeak.parts =
                   [k \in 1..Len(hits) |-> ESPEAK_PH[strip_stress(hits[k])]]
         /\ map_espeak.missing =
               NormalizedMisses(map_phones, LAMBDA ph : ~IsMappedEspeak(ph))

\* both mappers ran over a sequence that mixes mapped and unmapped phones
MappingWitness ==
    /\ map_engineered.done /\ map_espeak.done
    /\ Len(map_phones) >= 2
    /\ \E k \in 1..Len(map_phones) : ~IsMappedEngineered(map_phones[k])
    /\ \E k \in 1..Len(map_phones) :
          IsMappedEngineered(map_phones[k]) /\ map_phones[k] # strip_stress(map_phones[k])
    /\ Len(map_espeak.parts) < Len(map_phones)

-----------------------------------------------------------------------------
(* Properties of main() (Spec)                                             *)

\* the positions of main() after the sentence was printed
AfterReport == {"audio_check", "synth_traditional", "synth_new", "finish",
                "finished", "raised"}

\* sentence mode, the reconstructed sentence has been printed
Reported == args.mode = "sentence" /\ pc \in AfterReport

HasLetter(s) == \E k \in 1..Len(s) : IsLetter(s[k])

\* the positions of the Word tokens in the token stream, in order
RECURSIVE WordPositions(_, _)
WordPositions(toks, k) ==
    IF k > Len(toks) THEN <<>>
    ELSE (IF word_fullmatch(toks[k]) THEN <<k>> ELSE <<>>) \o WordPositions(toks, k + 1)

\* the transliteration of a word under the answers CMUdict has given
TransliterationOf(word) ==
    make_entry(word, cmudict[dict_key(word)]).engineered

KnownWord(word) ==
    /\ dict_key(word) \in DOMAIN cmudict
    /\ cmudict[dict_key(word)] # <<>>

\* C4: every Word token is replaced by the transliteration computed for that
\* exact word text or by a placeholder embedding the word; no word of the
\* input is dropped and no letters of the input are left as raw text
SubstitutionCoverage ==
    Reported =>
        /\ Len(sentence_symbols) = Len(tokens)
        /\ \A k \in 1..Len(tokens) :
              word_fullmatch(tokens[k]) =>
                 \/ /\ KnownWord(tokens[k])
                    /\ sentence_symbols[k] = TransliterationOf(tokens[k])
                 \/ sentence_symbols[k] = Placeholder(tokens[k])
        /\ \A k \in 1..Len(tokens) :
              ~word_fullmatch(tokens[k]) => ~HasLetter(sentence_symbols[k])
        /\ SelectSeq(tokens, word_fullmatch) = words

\* a subsequence of s obtained by trimming whitespace at both ends
IsTrimOf(t, s) ==
    /\ \A k \in 1..Len(t) : k \in {1, Len(t)} => t[k] \notin WhitespaceChars
    /\ \E lo \in 1..(Len(s) + 1) :
          /\ lo + Len(t) - 1 <= Len(s)
          /\ t = SubSeq(s, lo, lo + Len(t) - 1)
          /\ \A k \in 1..Len(s) :
                (k < lo \/ k > lo + Len(t) - 1) => s[k] \in WhitespaceChars

\* C5: a Punctuation token contributes its own text when the preserve flag
\* is set and one space when it is not, a Whitespace token contributes its
\* own text under both values, and the sentence printed is the contributions
\* concatenated in token order, trimmed of leading and trailing whitespace
SeparatorPolicy ==
    Reported =>
        /\ Len(sentence_symbols) = Len(tokens)
        /\ \A k \in 1..Len(tokens) :
              ~word_fullmatch(tokens[k]) =>
                 sentence_symbols[k] =
                    IF isspace(tokens[k]) THEN tokens[k]
                    ELSE IF args.preserve_punctuation THEN tokens[k]
                    ELSE <<" ">>
        /\ IsTrimOf(sentence_output, concat(sentence_symbols))
        /\ \E m \in 1..Len(stdout) :
              stdout[m].kind = "sentence" /\ stdout[m].data = sentence_output

\* a sentence with whitespace inside and punctuation at its end was printed
\* with the flag off: the space standing for the punctuation is trimmed
SeparatorWitness ==
    /\ Reported
    /\ ~args.preserve_punctuation
    /\ Len(tokens) >= 3
    /\ tokens[Len(tokens)] = <<",">>
    /\ \E k \in 2..(Len(tokens) - 1) : isspace(tokens[k])
    /\ Len(sentence_output) < Len(concat(sentence_symbols))

\* C6: in sentence mode a word CMUdict does not hold never aborts the run;
\* the word is in the reported not-found list and is a placeholder at its
\* position in the sentence, and every other word has the transliteration
\* it has on its own
MissingWordHandled ==
    /\ args.mode = "sentence" => pc # "returned_not_found"
    /\ (Reported /\ \E j \in 1..Len(words) : ~KnownWord(words[j])) =>
         LET pos == WordPositions(tokens, 1)
         IN  /\ Len(pos) = Len(words)
             /\ \A j \in 1..Len(words) :
                   /\ j <= Len(pos)
                   /\ tokens[pos[j]] = words[j]
                   /\ IF KnownWord(words[j])
                      THEN sentence_symbols[pos[j]] = TransliterationOf(words[j])
                      ELSE /\ sentence_symbols[pos[j]] = Placeholder(words[j])
                           /\ \E m \in 1..Len(missing_words) : missing_words[m] = words[j]
                           /\ \E m \in 1..Len(stdout) :
                                 /\ stdout[m].kind = "words_not_found"
                                 /\ stdout[m].data = missing_words

\* a line reporting that a subprocess.run failed. No print of the source
\* depends on the result of subprocess.run, so no line of stdout is one
ReportsFailure(line) == line.kind = "audio_failed"

\* C7: a failed invocation of the synthesizer never aborts the run and a
\* warning for it is printed; the sentence already printed stays as it is
SynthesisFailureSurfaced ==
    /\ pc # "raised"
    /\ \A k \in 1..Len(invocations) :
          invocations[k].outcome # "ok" =>
             \E m \in 1..Len(stdout) : ReportsFailure(stdout[m])

\* C8: an invocation of the synthesizer happens only after
\* espeak_available() returned true; a run that ends with no input, no words
\* or not found, a run with --no-audio and a run that found no synthesizer
\* invoke nothing, and the last still prints the transliteration
AvailabilityBeforeInvocation ==
    /\ invocations # <<>> => available = "yes"
    /\ pc \in {"synth_traditional", "synth_new"} => available = "yes"
    /\ pc \in {"returned_no_input", "returned_no_words", "returned_not_found"}
          => invocations = <<>> /\ available = "unchecked"
    /\ args.no_audio => invocations = <<>> /\ available = "unchecked"
    /\ available = "no" =>
          /\ invocations = <<>>
          /\ \E m \in 1..Len(stdout) :
                stdout[m].kind = IF args.mode = "word" THEN "engineered" ELSE "sentence"
          /\ \E m \in 1..Len(stdout) : stdout[m].kind = "audio_not_found"

\* both invocations were made, after a check that found the synthesizer
AvailabilityWitness ==
    /\ pc = "finished"
    /\ available = "yes"
    /\ Len(invocations) = 2

\* no word text occurs twice
Distinct(s) == \A j, k \in 1..Len(s) : s[j] = s[k] => j = k

\* C9 as stated: one WordEntry per distinct word text, in first-occurrence
\* order; a repeated word is looked up and reported once and its occurrences
\* reuse the one transliteration
OneEntryPerDistinctWord ==
    Reported =>
        /\ Distinct([k \in 1..Len(word_entries) |-> word_entries[k].word])
        /\ {word_entries[k].word : k \in 1..Len(word_entries)} = Range(words)
        /\ Distinct(missing_words)
        /\ \A k \in 1..Len(tokens) : \A j \in 1..Len(word_entries) :
              (word_entries[j].word = tokens[k] /\ word_entries[j].found)
                 => sentence_symbols[k] = word_entries[j].engineered

\* C9 amended: one WordEntry per occurrence of a word, in sentence order; a
\* repeated word is looked up and reported once per occurrence, and every
\* Word token of the sentence with the text of a found entry reuses the one
\* transliteration of that text
OneEntryPerOccurrence ==
    Reported =>
        /\ Len(word_entries) = Len(words)
        /\ \A k \in 1..Len(words) :
              /\ word_entries[k].word = words[k]
              /\ word_entries[k].found = KnownWord(words[k])
              /\ word_entries[k].found => word_entries[k].engineered = TransliterationOf(words[k])
        /\ missing_words = SelectSeq(words, LAMBDA w : ~KnownWord(w))
        /\ \A k \in 1..Len(tokens) : \A j \in 1..Len(word_entries) :
              (word_entries[j].word = tokens[k] /\ word_entries[j].found)
                 => sentence_symbols[k] = word_entries[j].engineered

\* a found word occurs twice in the sentence, with an entry for each
RepeatedWordWitness ==
    /\ Reported
    /\ \E j, k \in 1..Len(word_entries) :
          /\ j < k
          /\ word_entries[j].word = word_entries[k].word
          /\ word_entries[j].found
    /\ \E j, k \in 1..Len(tokens) :
          /\ j < k
          /\ tokens[j] = tokens[k]
          /\ word_fullmatch(tokens[j])
          /\ sentence_symbols[j] = TransliterationOf(tokens[j])

\* the tokens of the phoneme string between its markers
PhonTokens == split(SubSeq(phon_str, 3, Len(phon_str) - 2))

\* the dialect tokens of one phoneme group: those of its phones ESPEAK_PH holds
GroupTokens(phones) ==
    LET hits == SelectSeq(phones, IsMappedEspeak)
    IN  [k \in 1..Len(hits) |-> ESPEAK_PH[strip_stress(hits[k])]]

\* the phoneme groups of the words CMUdict holds, in sentence order
FoundGroups ==
    LET found == SelectSeq(words, KnownWord)
    IN  [k \in 1..Len(found) |-> split(cmudict[dict_key(found[k])][1])]

RECURSIVE FlattenTokens(_)
FlattenTokens(groups) ==
    IF groups = <<>> THEN <<>>
    ELSE GroupTokens(Head(groups)) \o FlattenTokens(Tail(groups))

\* sentence mode, the phoneme string has been built for new.wav
PhonStrBuilt ==
    /\ args.mode = "sentence"
    /\ \/ pc = "synth_new"
       \/ \E k \in 1..Len(invocations) : invocations[k].target = "new.wav"

\* C11: in sentence mode the phoneme string sent to the synthesizer is "[["
\* , the space-separated dialect tokens of every found word's group in
\* sentence order, and "]]", with exactly one comma between each pair of
\* adjacent word groups and nowhere else: never first, never last, never two
\* in a row
PhonemeStringShape ==
    PhonStrBuilt =>
        LET toks == PhonTokens
            commas == {k \in 1..Len(toks) : toks[k] = <<",">>}
        IN  /\ Len(phon_str) >= 4
            /\ SubSeq(phon_str, 1, 2) = <<"[", "[">>
            /\ SubSeq(phon_str, Len(phon_str) - 1, Len(phon_str)) = <<"]", "]">>
            /\ phon_str = make_phon_str(toks)
            /\ SelectSeq(toks, LAMBDA t : t # <<",">>) = FlattenTokens(FoundGroups)
            /\ Cardinality(commas) = Len(FoundGroups) - 1
            /\ 1 \notin commas
            /\ Len(toks) \notin commas
            /\ \A k \in commas : k + 1 \notin commas
            /\ \A k \in 1..Len(invocations) :
                  invocations[k].target = "new.wav" => invocations[k].input = phon_str

====
